---- MODULE Spec2Model ----
(***************************************************************************)
(* A model of PPDetHead (mmdet/models/anchor_heads/ppdet_head.py): the     *)
(* training-time target assignment (ppdet_target_single), the aggregated   *)
(* loss composition (loss) and the inference-time decoding                 *)
(* (get_bboxes_single).                                                    *)
(*                                                                         *)
(* Numbers.  Tensor elements are modelled exactly: a float is a record     *)
(* [k, n, d]: k = "num" is the rational n/d (d > 0), k = "nan" is NaN,     *)
(* k = "ninf" is -infinity, k = "log" is the natural logarithm of the      *)
(* rational n/d (n > 0) and k = "sigmoid" is 1 / (1 + exp(-n)).  Arithmetic is exact rational arithmetic; the     *)
(* rounding of float32 is not modelled.  Cell centres (index + 0.5) are    *)
(* kept as the odd integer 2*index + 1, in half units.                     *)
(***************************************************************************)
EXTENDS Integers, Sequences, FiniteSets, TLC

VARIABLES
    pc,                 \* position in loss() / get_bboxes_single()
    self,               \* the head's configuration (set by __init__)
    featmap_sizes,      \* <<H, W>> per prediction level
    gt_bbox_list,       \* per image: sequence of boxes <<x1, y1, x2, y2>>
    gt_label_list,      \* per image: sequence of class labels
    all_gt_label_list,  \* loss(): the concatenated labels
    label_size_list,    \* loss(): per image, the number of boxes before it
    label_list,         \* per image, per level: grid of labels
    bbox_target_list,   \* per image, per level: grid of 4 stored targets
    gt_ids_list,        \* per image, per level: grid of instance ids
    pos_list,           \* per image, per level: the painted rectangles, in order
    flat,               \* loss(): the flattened tensors
    agg,                \* loss(): the call of the classification loss
    reg,                \* loss(): the call of the regression loss / loss_bbox
    heap,               \* what the memory handed out by Tensor.new holds
    dec                 \* get_bboxes_single(): its locals

vars == <<pc, self, featmap_sizes, gt_bbox_list, gt_label_list,
          all_gt_label_list, label_size_list, label_list, bbox_target_list,
          gt_ids_list, pos_list, flat, agg, reg, heap, dec>>

----------------------------------------------------------------------------
(* Bounds of the model. *)

\* the largest batch
MaxImgs == 2
\* the largest number of ground-truth boxes in a batch
MaxGt == 2

----------------------------------------------------------------------------
(* Exact arithmetic. *)

Min(a, b) == IF a <= b THEN a ELSE b
Max(a, b) == IF a >= b THEN a ELSE b

\* floor and ceiling of a / b, b > 0
FloorDiv(a, b) == a \div b
CeilDiv(a, b) == -((-a) \div b)

\* Tensor.clamp(lo, hi) on integers (after .long())
ClampInt(v, lo, hi) == Min(Max(v, lo), hi)

Num(n, d) == [k |-> "num", n |-> n, d |-> d]
NaN == [k |-> "nan", n |-> 0, d |-> 1]
NegInf == [k |-> "ninf", n |-> 0, d |-> 1]
LogOf(n, d) == [k |-> "log", n |-> n, d |-> d]

\* comparison of two rationals with positive denominators
RatLess(a, b) == a.n * b.d < b.n * a.d
RatEq(a, b) == a.n * b.d = b.n * a.d

\* v + 1 (the "+ 1" of line 301)
PlusOne(v) == IF v.k = "num" THEN Num(v.n + v.d, v.d) ELSE v

\* torch.log, elementwise
Log(v) ==
    IF v.k # "num" THEN NaN
    ELSE IF v.n < 0 THEN NaN
    ELSE IF v.n = 0 THEN NegInf
    ELSE LogOf(v.n, v.d)

\* torch.exp, elementwise
Exp(v) ==
    CASE v.k = "log" -> Num(v.n, v.d)
      [] v.k = "ninf" -> Num(0, 1)
      [] OTHER -> NaN

\* Tensor.sigmoid, elementwise on an integer logit
Sigmoid(x) == [k |-> "sigmoid", n |-> x, d |-> 1]

\* Tensor.clamp(min=lo, max=hi), elementwise on floats; NaN stays NaN
ClampNum(v, lo, hi) ==
    IF v.k # "num" THEN v
    ELSE IF RatLess(v, lo) THEN lo
    ELSE IF RatLess(hi, v) THEN hi
    ELSE v

----------------------------------------------------------------------------
(* Configuration: PPDetHead.__init__.  Two pyramid levels with the first   *)
(* two default strides, base edges and scale ranges.                       *)

SigmaNum == 2
SigmaDen == 5

ClsOutChannels(num_classes) == num_classes - 1

HeadConfig(num_classes, strides, base_edge_list, scale_ranges) ==
    [num_classes |-> num_classes,
     cls_out_channels |-> ClsOutChannels(num_classes),
     strides |-> strides,
     base_edge_list |-> base_edge_list,
     scale_ranges |-> scale_ranges]

TrainConfig == HeadConfig(3, <<4, 8>>, <<16, 32>>, <<<<8, 32>>, <<16, 64>>>>)

----------------------------------------------------------------------------
(* Inputs of loss(): the ground truth of a batch and the feature-map sizes. *)

\* Ground-truth boxes <<x1, y1, x2, y2>> (image pixels) with their labels.
\*   BoxA  16x16, area_score 16: selected by both levels; its positive
\*         region is empty on the second level
\*   BoxB  12x12, area_score 12: first level only; inside BoxA
\*   BoxC  24x24, area_score 24: both levels; its rows are moved by the clamp
\*   BoxE  4x4, area_score 4: selected by no level
\*   BoxF  512x2, area_score 32 (a range boundary): both levels; its columns
\*         and rows are moved by the clamp into the feature map
BoxA == [box |-> <<0, 0, 16, 16>>, label |-> 1]
BoxB == [box |-> <<4, 4, 16, 16>>, label |-> 2]
BoxC == [box |-> <<0, 0, 24, 24>>, label |-> 2]
BoxE == [box |-> <<0, 0, 4, 4>>, label |-> 1]
BoxF == [box |-> <<0, 0, 512, 2>>, label |-> 1]
GtPool == {BoxA, BoxB, BoxC, BoxE, BoxF}

SeqsUpTo(S, k) == UNION {[1..n -> S] : n \in 0..k}

\* the batches of n images holding at most `budget` boxes altogether
RECURSIVE BatchesOf(_, _)
BatchesOf(n, budget) ==
    IF n = 0 THEN {<<>>}
    ELSE UNION {{<<s>> \o rest : rest \in BatchesOf(n - 1, budget - Len(s))} :
                s \in SeqsUpTo(GtPool, budget)}

Batches == UNION {BatchesOf(n, MaxGt) : n \in 1..MaxImgs}

\* feature-map sizes <<H, W>> per prediction level (len(cls_scores) levels)
FeatmapChoices == {<<<<3, 4>>, <<2, 2>>>>}

\* feature-map sizes for a network with as many prediction levels as the
\* head has strides, with one level fewer, and with one level more
FeatmapLevelChoices ==
    {<<<<3, 4>>, <<2, 2>>>>, <<<<3, 4>>>>, <<<<3, 4>>, <<2, 2>>, <<1, 1>>>>}

\* what uninitialised memory may hold (Tensor.new of line 301): zero, a
\* negative number or a large number; one content per call of loss()
Garbage == {Num(0, 1), Num(-3, 1), Num(99, 1)}

\* raw network outputs: one distinct integer per (level, image, cell, channel)
CellCode(l, i, r, c) == ((l - 1) * MaxImgs + (i - 1)) * 16 + r * 4 + c
ClsScoreAt(l, i, r, c, ch) == CellCode(l, i, r, c) * 2 + (ch - 1)
BboxPredAt(l, i, r, c, ch) == CellCode(l, i, r, c) * 4 + (ch - 1)
NetOutput(output, l, i, r, c, ch) ==
    IF output = "cls_scores" THEN ClsScoreAt(l, i, r, c, ch) ELSE BboxPredAt(l, i, r, c, ch)

----------------------------------------------------------------------------
(* get_points (lines 181-192): cell centres <<y, x>>, in half units. *)

Cells(featmap_size) ==
    (0..(featmap_size[1] - 1)) \X (0..(featmap_size[2] - 1))

PointGrid(featmap_size) ==
    [p \in Cells(featmap_size) |-> <<2 * p[1] + 1, 2 * p[2] + 1>>]

get_points(sizes) == [l \in 1..Len(sizes) |-> PointGrid(sizes[l])]

----------------------------------------------------------------------------
(* ppdet_target_single (lines 286-337). *)

\* gt_areas squared (lines 293-294): gt_areas = sqrt(w * h)
AreaSq(box) == (box[3] - box[1]) * (box[4] - box[2])

\* line 303: lower <= sqrt(w * h) <= upper
InRange(box, lower_bound, upper_bound) ==
    /\ AreaSq(box) >= lower_bound * lower_bound
    /\ AreaSq(box) <= upper_bound * upper_bound

\* hit_indices (line 303): the 0-based indices of the selected boxes
HitSet(gt_bboxes_raw, lower_bound, upper_bound) ==
    {j \in 0..(Len(gt_bboxes_raw) - 1) :
        InRange(gt_bboxes_raw[j + 1], lower_bound, upper_bound)}

\* a sort that puts the smallest area first
Descending_Ascending(gt_bboxes_raw, order) ==
    \A a, b \in 1..Len(order) :
        a < b => AreaSq(gt_bboxes_raw[order[a] + 1]) <= AreaSq(gt_bboxes_raw[order[b] + 1])

\* the order of torch.sort(-gt_areas[hit_indices]) (lines 310-311): largest
\* area first; the sort is not stable, so boxes of equal area come in any order
Descending(gt_bboxes_raw, order) ==
    \A a, b \in 1..Len(order) :
        a < b => AreaSq(gt_bboxes_raw[order[a] + 1]) >= AreaSq(gt_bboxes_raw[order[b] + 1])

SortedOrders(gt_bboxes_raw, hits) ==
    {order \in [1..Cardinality(hits) -> hits] :
        /\ \A a, b \in 1..Cardinality(hits) : a # b => order[a] # order[b]
        /\ Descending(gt_bboxes_raw, order)}

\* a lower bound rounded down where the code rounds up
PosLow_Floor(lo, hi, stride, dim) ==
    ClampInt(FloorDiv(2 * SigmaDen * lo + (SigmaDen - SigmaNum) * (hi - lo)
                      - SigmaDen * stride, 2 * SigmaDen * stride),
             0, dim - 1)

\* lines 316-323: lo + (1 -/+ sigma) * half - 0.5 over the stride, as the
\* fraction  (2*sd*lo + (sd -/+ sn)*(hi - lo) - sd*stride) / (2*sd*stride)
PosLow(lo, hi, stride, dim) ==
    ClampInt(CeilDiv(2 * SigmaDen * lo + (SigmaDen - SigmaNum) * (hi - lo)
                     - SigmaDen * stride, 2 * SigmaDen * stride),
             0, dim - 1)

PosHigh(lo, hi, stride, dim) ==
    ClampInt(FloorDiv(2 * SigmaDen * lo + (SigmaDen + SigmaNum) * (hi - lo)
                      - SigmaDen * stride, 2 * SigmaDen * stride),
             0, dim - 1)

\* pos_left, pos_top, pos_right, pos_down of one box (lines 312-323)
PosRegion(gt_id, box, stride, featmap_size) ==
    [gt_id |-> gt_id,
     px1 |-> PosLow(box[1], box[3], stride, featmap_size[2]),
     py1 |-> PosLow(box[2], box[4], stride, featmap_size[1]),
     px2 |-> PosHigh(box[1], box[3], stride, featmap_size[2]),
     py2 |-> PosHigh(box[2], box[4], stride, featmap_size[1])]

\* the slice [py1:py2 + 1, px1:px2 + 1]
InSlice(p, pos) ==
    /\ pos.py1 <= p[1] /\ p[1] <= pos.py2
    /\ pos.px1 <= p[2] /\ p[2] <= pos.px2

\* lines 329-332: the four side distances over base_len, at centre <<y, x>>
SideDistances(yx, box, stride, base_len) ==
    <<Num(stride * yx[2] - 2 * box[1], 2 * base_len),
      Num(stride * yx[1] - 2 * box[2], 2 * base_len),
      Num(2 * box[3] - stride * yx[2], 2 * base_len),
      Num(2 * box[4] - stride * yx[1], 2 * base_len)>>

\* an id without the offset of the earlier images
InstanceId_NoOffset(gt_id, label_size) == gt_id

\* the id written at line 328
InstanceId(gt_id, label_size) == gt_id + label_size

\* a painting loop that leaves gt_ids alone
PaintBox_KeepIds(grid, pos, points, gt_bboxes_raw, gt_labels_raw, label_size, stride, base_len) ==
    [p \in DOMAIN grid |->
        IF InSlice(p, pos)
        THEN [label |-> gt_labels_raw[pos.gt_id + 1],
              gt_id |-> grid[p].gt_id,
              bbox |-> SideDistances(points[p], gt_bboxes_raw[pos.gt_id + 1],
                                     stride, base_len)]
        ELSE grid[p]]

\* lines 327-332: one iteration of the painting loop
PaintBox(grid, pos, points, gt_bboxes_raw, gt_labels_raw, label_size, stride, base_len) ==
    [p \in DOMAIN grid |->
        IF InSlice(p, pos)
        THEN [label |-> gt_labels_raw[pos.gt_id + 1],
              gt_id |-> InstanceId(pos.gt_id, label_size),
              bbox |-> SideDistances(points[p], gt_bboxes_raw[pos.gt_id + 1],
                                     stride, base_len)]
        ELSE grid[p]]

\* lines 324-332: the painting loop, in the order of pos_seq
RECURSIVE PaintAll(_, _, _, _, _, _, _, _, _)
PaintAll(grid, pos_seq, k, points, gt_bboxes_raw, gt_labels_raw, label_size, stride, base_len) ==
    IF k > Len(pos_seq) THEN grid
    ELSE PaintAll(PaintBox(grid, pos_seq[k], points, gt_bboxes_raw,
                           gt_labels_raw, label_size, stride, base_len),
                  pos_seq, k + 1, points, gt_bboxes_raw, gt_labels_raw,
                  label_size, stride, base_len)

\* lines 300-302: labels zero, ids -1, bbox_targets = Tensor.new(...) + 1,
\* where Tensor.new leaves the memory uninitialised (`fill` is what it holds)
FreshGrid(featmap_size, fill) ==
    [p \in Cells(featmap_size) |->
        [label |-> 0, gt_id |-> -1,
         bbox |-> [ch \in 1..4 |-> PlusOne(fill)]]]

ClampLow == Num(1, 16)
ClampHigh == Num(16, 1)

\* line 333 and line 335: clamp(min=1/16, max=16), then log
StoreTarget(v) == Log(ClampNum(v, ClampLow, ClampHigh))

\* one iteration of the level loop (lines 298-336)
TargetLevel(gt_bboxes_raw, gt_labels_raw, label_size, base_len, range, stride, featmap_size, points, order, fill) ==
    LET fresh == FreshGrid(featmap_size, fill)
        pos_seq == [k \in 1..Len(order) |->
                       PosRegion(order[k], gt_bboxes_raw[order[k] + 1],
                                 stride, featmap_size)]
        painted == PaintAll(fresh, pos_seq, 1, points, gt_bboxes_raw,
                            gt_labels_raw, label_size, stride, base_len)
    IN  IF Len(order) = 0
        THEN [labels |-> [p \in DOMAIN fresh |-> fresh[p].label],
              bbox_targets |-> [p \in DOMAIN fresh |->
                                   [ch \in 1..4 |-> Log(fresh[p].bbox[ch])]],
              gt_ids |-> [p \in DOMAIN fresh |-> fresh[p].gt_id],
              pos |-> <<>>]
        ELSE [labels |-> [p \in DOMAIN painted |-> painted[p].label],
              bbox_targets |-> [p \in DOMAIN painted |->
                                   [ch \in 1..4 |-> StoreTarget(painted[p].bbox[ch])]],
              gt_ids |-> [p \in DOMAIN painted |-> painted[p].gt_id],
              pos |-> pos_seq]

\* the length of the zip of lines 298-299
NumTargetLevels(cfg, sizes) ==
    Min(Min(Len(cfg.base_edge_list), Len(cfg.scale_ranges)),
        Min(Len(cfg.strides), Len(sizes)))

\* the sort orders the levels may use for one image
OrderChoices(cfg, sizes, gt_bboxes_raw) ==
    LET nl == NumTargetLevels(cfg, sizes)
        ords(l) == SortedOrders(gt_bboxes_raw,
                       HitSet(gt_bboxes_raw, cfg.scale_ranges[l][1],
                              cfg.scale_ranges[l][2]))
    IN  {f \in [1..nl -> UNION {ords(l) : l \in 1..nl}] :
            \A l \in 1..nl : f[l] \in ords(l)}

ppdet_target_single(cfg, gt_bboxes_raw, gt_labels_raw, label_size_list_raw, featmap_size_list, point_list, orders, fills) ==
    [l \in 1..NumTargetLevels(cfg, featmap_size_list) |->
        TargetLevel(gt_bboxes_raw, gt_labels_raw, label_size_list_raw,
                    cfg.base_edge_list[l], cfg.scale_ranges[l], cfg.strides[l],
                    featmap_size_list[l], point_list[l], orders[l], fills[l])]

----------------------------------------------------------------------------
(* loss (lines 194-284). *)

RECURSIVE Concat(_)
Concat(seqs) == IF seqs = <<>> THEN <<>> ELSE Head(seqs) \o Concat(Tail(seqs))

\* lines 210-214: label_size_list[i] is the number of boxes of the images
\* before image i (temp starts at 0 and grows by each image's size)
RECURSIVE LabelSizes(_, _)
LabelSizes(labels_per_img, temp) ==
    IF labels_per_img = <<>> THEN <<>>
    ELSE <<temp>> \o LabelSizes(Tail(labels_per_img),
                                Len(Head(labels_per_img)) + temp)

\* Tensor.flatten() / reshape(-1, 4) of an H x W grid: row-major
FlattenGrid(grid, featmap_size) ==
    [n \in 1..(featmap_size[1] * featmap_size[2]) |->
        grid[<<(n - 1) \div featmap_size[2], (n - 1) % featmap_size[2]>>]]

\* a flattening that walks the images first and the levels inside them
FlattenTargets_ImageMajor(per_img, sizes) ==
    Concat([i \in 1..Len(per_img) |->
        Concat([l \in 1..Len(per_img[i]) |->
            FlattenGrid(per_img[i][l], sizes[l])])])

\* lines 224-242: per level the images' grids concatenated, then the levels
FlattenTargets(per_img, sizes) ==
    LET nl == IF per_img = <<>> THEN 0 ELSE Len(per_img[1])
    IN  Concat([l \in 1..nl |->
            Concat([i \in 1..Len(per_img) |->
                FlattenGrid(per_img[i][l], sizes[l])])])

\* lines 244-253: permute(0, 2, 3, 1).reshape(-1, C) of each level's
\* [N, C, H, W] prediction, then the levels concatenated
FlattenPreds(output, channels, num_imgs, sizes) ==
    Concat([l \in 1..Len(sizes) |->
        Concat([i \in 1..num_imgs |->
            [n \in 1..(sizes[l][1] * sizes[l][2]) |->
                [ch \in 1..channels |->
                    NetOutput(output, l, i, (n - 1) \div sizes[l][2],
                              (n - 1) % sizes[l][2], ch)]]])])

\* (mask).nonzero(): the indices where the mask holds, ascending
RECURSIVE NonzeroFrom(_, _)
NonzeroFrom(mask, n) ==
    IF n > Len(mask) THEN <<>>
    ELSE (IF mask[n] THEN <<n>> ELSE <<>>) \o NonzeroFrom(mask, n + 1)

Nonzero(mask) == NonzeroFrom(mask, 1)

Gather(seq, inds) == [k \in 1..Len(inds) |-> seq[inds[k]]]

RECURSIVE SumOver(_, _, _)
SumOver(rows, ch, k) ==
    IF k > Len(rows) THEN 0 ELSE rows[k][ch] + SumOver(rows, ch, k + 1)

\* a sum where the mean is meant
MeanRow_Sum(rows, channels) ==
    [ch \in 1..channels |-> Num(SumOver(rows, ch, 1), 1)]

\* flatten_cls_scores[aggregation_indices].mean(dim=0): one row
MeanRow(rows, channels) ==
    [ch \in 1..channels |-> Num(SumOver(rows, ch, 1), Len(rows))]

RawRow(row) == [ch \in 1..Len(row) |-> Num(row[ch], 1)]

\* line 265: aggregation_indices = (flatten_ids == i).nonzero()
AggregationIndices(flatten_ids, i) ==
    Nonzero([n \in 1..Len(flatten_ids) |-> flatten_ids[n] = i])

\* lines 263-270: the aggregation loop; every hit instance is put in front
RECURSIVE AggLoop(_, _, _, _, _, _)
AggLoop(i, st, labels_all, flatten_ids, flatten_cls_scores, channels) ==
    IF i >= Len(labels_all) THEN st
    ELSE LET aggregation_indices == AggregationIndices(flatten_ids, i)
         IN  AggLoop(i + 1,
                 IF Len(aggregation_indices) # 0
                 THEN [agg_labels |-> <<labels_all[i + 1]>> \o st.agg_labels,
                       agg_cls_scores |->
                           <<MeanRow(Gather(flatten_cls_scores, aggregation_indices),
                                     channels)>> \o st.agg_cls_scores,
                       num_agg_pos |-> st.num_agg_pos + 1]
                 ELSE st,
                 labels_all, flatten_ids, flatten_cls_scores, channels)

\* line 254
PosInds(flatten_labels) ==
    Nonzero([n \in 1..Len(flatten_labels) |-> flatten_labels[n] > 0])
\* line 258
NegInds(flatten_labels) ==
    Nonzero([n \in 1..Len(flatten_labels) |-> flatten_labels[n] <= 0])

\* a normaliser that forgets the images
ClsAvgFactor_NoImgs(num_agg_pos, num_imgs) == num_agg_pos

\* line 272: avg_factor = num_agg_pos + num_imgs
ClsAvgFactor(num_agg_pos, num_imgs) == num_agg_pos + num_imgs

\* lines 258-272: what the classification loss is called with
ClsLossCall(f, labels_all, channels) ==
    LET neg_inds == NegInds(f.flatten_labels)
        st == AggLoop(0,
                  [agg_labels |-> Gather(f.flatten_labels, neg_inds),
                   agg_cls_scores |->
                       [k \in 1..Len(neg_inds) |->
                           RawRow(f.flatten_cls_scores[neg_inds[k]])],
                   num_agg_pos |-> 0],
                  labels_all, f.flatten_ids, f.flatten_cls_scores, channels)
    IN  [agg_cls_scores |-> st.agg_cls_scores,
         agg_labels |-> st.agg_labels,
         num_agg_pos |-> st.num_agg_pos,
         avg_factor |-> ClsAvgFactor(st.num_agg_pos, f.num_imgs)]

\* a regression loss without the guard on num_pos
BboxLossCall_Unguarded(f) ==
    LET pos_inds == PosInds(f.flatten_labels)
    IN  [called |-> TRUE,
         pos_bbox_preds |-> Gather(f.flatten_bbox_preds, pos_inds),
         pos_bbox_targets |-> Gather(f.flatten_bbox_targets, pos_inds),
         pos_weights |-> [k \in 1..Len(pos_inds) |-> [ch \in 1..4 |-> 1]],
         avg_factor |-> Len(pos_inds),
         loss_bbox |-> "loss_bbox"]

\* lines 274-281: the regression loss, or the constant 0 without positives
BboxLossCall(f) ==
    LET pos_inds == PosInds(f.flatten_labels)
        num_pos == Len(pos_inds)
    IN  IF num_pos > 0
        THEN [called |-> TRUE,
              pos_bbox_preds |-> Gather(f.flatten_bbox_preds, pos_inds),
              pos_bbox_targets |-> Gather(f.flatten_bbox_targets, pos_inds),
              pos_weights |-> [k \in 1..num_pos |-> [ch \in 1..4 |-> 1]],
              avg_factor |-> num_pos,
              loss_bbox |-> "loss_bbox"]
        ELSE [called |-> FALSE,
              pos_bbox_preds |-> <<>>,
              pos_bbox_targets |-> <<>>,
              pos_weights |-> <<>>,
              avg_factor |-> 0,
              loss_bbox |-> 0]

----------------------------------------------------------------------------
(* The training path as a state machine. *)

NoCall == [called |-> FALSE]

Init ==
    /\ pc = "loss"
    /\ self = TrainConfig
    /\ featmap_sizes \in FeatmapChoices
    /\ \E batch \in Batches :
        /\ gt_bbox_list = [i \in 1..Len(batch) |->
                              [j \in 1..Len(batch[i]) |-> batch[i][j].box]]
        /\ gt_label_list = [i \in 1..Len(batch) |->
                               [j \in 1..Len(batch[i]) |-> batch[i][j].label]]
    /\ all_gt_label_list = <<>>
    /\ label_size_list = <<>>
    /\ label_list = <<>>
    /\ bbox_target_list = <<>>
    /\ gt_ids_list = <<>>
    /\ pos_list = <<>>
    /\ flat = <<>>
    /\ agg = NoCall
    /\ reg = NoCall
    /\ heap \in Garbage
    /\ dec = [levels |-> <<>>]

\* lines 209-214
Offsets ==
    /\ pc = "loss"
    /\ all_gt_label_list' = Concat(gt_label_list)
    /\ label_size_list' = LabelSizes(gt_label_list, 0)
    /\ pc' = "targets"
    /\ UNCHANGED <<self, featmap_sizes, gt_bbox_list, gt_label_list, label_list,
                   bbox_target_list, gt_ids_list, pos_list, flat, agg, reg, heap, dec>>

\* lines 216-222: multi_apply calls ppdet_target_single image by image
TargetSingle ==
    /\ pc = "targets"
    /\ LET i == Len(label_list) + 1
           nl == NumTargetLevels(self, featmap_sizes)
       IN  \E orders \in OrderChoices(self, featmap_sizes, gt_bbox_list[i]) :
             LET res == ppdet_target_single(self, gt_bbox_list[i], gt_label_list[i],
                            label_size_list[i], featmap_sizes,
                            get_points(featmap_sizes), orders,
                            [l \in 1..nl |-> heap])
             IN  /\ label_list' = Append(label_list, [l \in 1..nl |-> res[l].labels])
                 /\ bbox_target_list' =
                        Append(bbox_target_list, [l \in 1..nl |-> res[l].bbox_targets])
                 /\ gt_ids_list' = Append(gt_ids_list, [l \in 1..nl |-> res[l].gt_ids])
                 /\ pos_list' = Append(pos_list, [l \in 1..nl |-> res[l].pos])
                 /\ pc' = IF i = Len(gt_bbox_list) THEN "flatten" ELSE "targets"
    /\ UNCHANGED <<self, featmap_sizes, gt_bbox_list, gt_label_list,
                   all_gt_label_list, label_size_list, flat, agg, reg, heap, dec>>

\* lines 224-253
Flatten ==
    /\ pc = "flatten"
    /\ flat' = [flatten_labels |-> FlattenTargets(label_list, featmap_sizes),
                flatten_bbox_targets |-> FlattenTargets(bbox_target_list, featmap_sizes),
                flatten_ids |-> FlattenTargets(gt_ids_list, featmap_sizes),
                num_imgs |-> Len(gt_bbox_list),
                flatten_cls_scores |->
                    FlattenPreds("cls_scores", self.cls_out_channels,
                                 Len(gt_bbox_list), featmap_sizes),
                flatten_bbox_preds |->
                    FlattenPreds("bbox_preds", 4, Len(gt_bbox_list), featmap_sizes)]
    /\ pc' = "cls"
    /\ UNCHANGED <<self, featmap_sizes, gt_bbox_list, gt_label_list,
                   all_gt_label_list, label_size_list, label_list,
                   bbox_target_list, gt_ids_list, pos_list, agg, reg, heap, dec>>

\* lines 254-272
ClsLoss ==
    /\ pc = "cls"
    /\ agg' = [called |-> TRUE] @@ ClsLossCall(flat, all_gt_label_list,
                                               self.cls_out_channels)
    /\ pc' = "bbox"
    /\ UNCHANGED <<self, featmap_sizes, gt_bbox_list, gt_label_list,
                   all_gt_label_list, label_size_list, label_list,
                   bbox_target_list, gt_ids_list, pos_list, flat, reg, heap, dec>>

\* lines 274-284
BboxLoss ==
    /\ pc = "bbox"
    /\ reg' = BboxLossCall(flat)
    /\ pc' = "done"
    /\ UNCHANGED <<self, featmap_sizes, gt_bbox_list, gt_label_list,
                   all_gt_label_list, label_size_list, label_list,
                   bbox_target_list, gt_ids_list, pos_list, flat, agg, heap, dec>>

Next == Offsets \/ TargetSingle \/ Flatten \/ ClsLoss \/ BboxLoss

Spec == Init /\ [][Next]_vars

\* loss() called with a network of any number of prediction levels
InitLevels ==
    /\ pc = "loss"
    /\ self = TrainConfig
    /\ featmap_sizes \in FeatmapLevelChoices
    /\ \E batch \in Batches :
        /\ gt_bbox_list = [i \in 1..Len(batch) |->
                              [j \in 1..Len(batch[i]) |-> batch[i][j].box]]
        /\ gt_label_list = [i \in 1..Len(batch) |->
                               [j \in 1..Len(batch[i]) |-> batch[i][j].label]]
    /\ all_gt_label_list = <<>>
    /\ label_size_list = <<>>
    /\ label_list = <<>>
    /\ bbox_target_list = <<>>
    /\ gt_ids_list = <<>>
    /\ pos_list = <<>>
    /\ flat = <<>>
    /\ agg = NoCall
    /\ reg = NoCall
    /\ heap \in Garbage
    /\ dec = [levels |-> <<>>]

\* loss() up to the flattened tensors (lines 194-253)
NextLevels == Offsets \/ TargetSingle \/ Flatten

SpecLevels == InitLevels /\ [][NextLevels]_vars

----------------------------------------------------------------------------
(* get_bboxes_single (lines 439-496), for one image. *)

\* the head configurations of the decoding runs: the two-level head above
\* and a single level of stride 8 and base edge 16
DecodeConfigs ==
    {TrainConfig, HeadConfig(2, <<8>>, <<16>>, <<<<8, 32>>>>)}

\* img_shape <<height, width>>
ImgShapes == {<<100, 200>>, <<64, 64>>}
\* cfg.nms_pre
NmsPreChoices == {-1, 2}
\* the feature-map sizes of a decoded level
DecodeSizes == {<<1, 3>>, <<11, 21>>}
\* scale_factor when rescale is set
ScaleFactors == {2}

\* raw classification outputs of row n (0-based), channel ch: pattern 0 gives
\* every row its own scores, pattern 1 gives pairs of rows equal scores
RawScore(pat, n, ch) == IF pat = 0 THEN 2 * n + ch ELSE 0 - (n \div 2)
ScorePatterns == {0, 1}

\* raw regression outputs: -infinity (exp gives 0), log(1) and log(2);
\* pattern 1 gives the four channels of a row one value, pattern 3 varies
\* it by channel
PredVals == <<NegInf, LogOf(1, 1), LogOf(2, 1)>>
RawPred(pat, n, ch) ==
    IF pat < 3 THEN PredVals[((n + pat) % 3) + 1] ELSE PredVals[((n + ch) % 3) + 1]
PredPatterns == {1, 3}

\* scores.max(dim=1) of a row of sigmoids: the largest logit decides
RowMax(row) == CHOOSE v \in {row[ch].n : ch \in 1..Len(row)} :
                   \A ch \in 1..Len(row) : row[ch].n <= v

\* max_scores.topk(nms_pre): the indices of the k largest values, largest
\* first; equal values come in any order
RECURSIVE TopkChoices(_, _, _)
TopkChoices(max_scores, S, k) ==
    IF k = 0 THEN {<<>>}
    ELSE UNION {{<<i>> \o rest : rest \in TopkChoices(max_scores, S \ {i}, k - 1)} :
                i \in {i \in S : \A j \in S : max_scores[j] <= max_scores[i]}}

\* lines 458-465: the candidates kept on one level (0-based rows, in order)
KeptChoices(scores, nms_pre) ==
    LET n == Len(scores)
    IN  IF nms_pre > 0 /\ n > nms_pre
        THEN {[k \in 1..nms_pre |-> t[k] - 1] :
                 t \in TopkChoices([j \in 1..n |-> RowMax(scores[j])], 1..n, nms_pre)}
        ELSE {[k \in 1..n |-> k - 1]}

\* stride * p -/+ base_len * pred, with p in half units
DecodeCoord(stride, p2, base_len, pred, sign) ==
    IF pred.k # "num" THEN NaN
    ELSE Num(stride * p2 * pred.d + sign * 2 * base_len * pred.n, 2 * pred.d)

\* a decoding that takes the cell's far edge (index + 1) for its centre
DecodeBox_FarEdge(stride, base_len, y2, x2, pred) ==
    <<DecodeCoord(stride, x2 + 1, base_len, pred[1], -1),
      DecodeCoord(stride, y2 + 1, base_len, pred[2], -1),
      DecodeCoord(stride, x2 + 1, base_len, pred[3], 1),
      DecodeCoord(stride, y2 + 1, base_len, pred[4], 1)>>

\* lines 466-469 before .clamp: x1, y1, x2, y2
DecodeBox(stride, base_len, y2, x2, pred) ==
    <<DecodeCoord(stride, x2, base_len, pred[1], -1),
      DecodeCoord(stride, y2, base_len, pred[2], -1),
      DecodeCoord(stride, x2, base_len, pred[3], 1),
      DecodeCoord(stride, y2, base_len, pred[4], 1)>>

\* lines 466-469: .clamp(min=0, max=img_shape[1] - 1) for x, img_shape[0] - 1 for y
ClampBox(box, img_shape) ==
    <<ClampNum(box[1], Num(0, 1), Num(img_shape[2] - 1, 1)),
      ClampNum(box[2], Num(0, 1), Num(img_shape[1] - 1, 1)),
      ClampNum(box[3], Num(0, 1), Num(img_shape[2] - 1, 1)),
      ClampNum(box[4], Num(0, 1), Num(img_shape[1] - 1, 1))>>

\* line 475: det_bboxes /= scale_factor
Rescale(box, rescale, scale_factor) ==
    IF rescale
    THEN [ch \in 1..4 |-> IF box[ch].k = "num"
                          THEN Num(box[ch].n, box[ch].d * scale_factor) ELSE box[ch]]
    ELSE box

\* a score matrix handed on without the background column
PadScores_NoPadding(row) == row

\* lines 477-478: one zero column in front of the class scores
PadScores(row) == <<Num(0, 1)>> \o row

\* one iteration of the level loop (lines 451-472)
DecodeLevel(cfg, l, featmap_size, cls_pat, pred_pat, img_shape, nms_pre, kept) ==
    LET w == featmap_size[2]
        stride == cfg.strides[l]
        base_len == cfg.base_edge_list[l]
        y == [k \in 1..Len(kept) |-> 2 * (kept[k] \div w) + 1]
        x == [k \in 1..Len(kept) |-> 2 * (kept[k] % w) + 1]
        bbox_pred == [k \in 1..Len(kept) |->
                         [ch \in 1..4 |-> Exp(RawPred(pred_pat, kept[k], ch))]]
        raw == [k \in 1..Len(kept) |->
                   DecodeBox(stride, base_len, y[k], x[k], bbox_pred[k])]
    IN  [stride |-> stride, base_len |-> base_len, featmap_size |-> featmap_size,
         cls_pat |-> cls_pat, pred_pat |-> pred_pat, kept |-> kept,
         y |-> y, x |-> x, bbox_pred |-> bbox_pred, unclamped |-> raw,
         scores |-> [k \in 1..Len(kept) |->
                        [ch \in 1..cfg.cls_out_channels |->
                            Sigmoid(RawScore(cls_pat, kept[k], ch))]],
         bboxes |-> [k \in 1..Len(kept) |-> ClampBox(raw[k], img_shape)]]

\* all rows of one level, scored (lines 455-456), before the top-k filter
LevelScores(cfg, featmap_size, cls_pat) ==
    [j \in 1..(featmap_size[1] * featmap_size[2]) |->
        [ch \in 1..cfg.cls_out_channels |-> Sigmoid(RawScore(cls_pat, j - 1, ch))]]

InitDecode ==
    /\ pc = "get_bboxes_single"
    /\ self \in DecodeConfigs
    /\ \E img_shape \in ImgShapes, nms_pre \in NmsPreChoices, rescale \in BOOLEAN,
          scale_factor \in ScaleFactors :
          dec = [img_shape |-> img_shape, nms_pre |-> nms_pre, rescale |-> rescale,
                 scale_factor |-> scale_factor, levels |-> <<>>,
                 det_bboxes |-> <<>>, det_scores |-> <<>>]
    /\ featmap_sizes = <<>>
    /\ gt_bbox_list = <<>>
    /\ gt_label_list = <<>>
    /\ all_gt_label_list = <<>>
    /\ label_size_list = <<>>
    /\ label_list = <<>>
    /\ bbox_target_list = <<>>
    /\ gt_ids_list = <<>>
    /\ pos_list = <<>>
    /\ flat = <<>>
    /\ agg = NoCall
    /\ reg = NoCall
    /\ heap = Num(0, 1)

\* lines 451-472: the next level of the loop, on that level's predictions
DecodeNextLevel ==
    /\ pc = "get_bboxes_single"
    /\ Len(dec.levels) < Len(self.strides)
    /\ \E featmap_size \in DecodeSizes, cls_pat \in ScorePatterns,
          pred_pat \in PredPatterns :
          \E kept \in KeptChoices(LevelScores(self, featmap_size, cls_pat), dec.nms_pre) :
             /\ dec' = [dec EXCEPT !.levels =
                           Append(@, DecodeLevel(self, Len(dec.levels) + 1, featmap_size,
                                                 cls_pat, pred_pat, dec.img_shape,
                                                 dec.nms_pre, kept))]
             /\ featmap_sizes' = Append(featmap_sizes, featmap_size)
    /\ UNCHANGED <<pc, self, gt_bbox_list, gt_label_list, all_gt_label_list,
                   label_size_list, label_list, bbox_target_list, gt_ids_list,
                   pos_list, flat, agg, reg, heap>>

\* lines 473-478 and the call of multiclass_nms (lines 479-496)
HandToNms ==
    /\ pc = "get_bboxes_single"
    /\ Len(dec.levels) = Len(self.strides)
    /\ dec' = [dec EXCEPT
                  !.det_bboxes =
                      LET all == Concat([l \in 1..Len(dec.levels) |-> dec.levels[l].bboxes])
                      IN  [k \in 1..Len(all) |->
                              Rescale(all[k], dec.rescale, dec.scale_factor)],
                  !.det_scores =
                      LET all == Concat([l \in 1..Len(dec.levels) |-> dec.levels[l].scores])
                      IN  [k \in 1..Len(all) |-> PadScores(all[k])]]
    /\ pc' = "multiclass_nms"
    /\ UNCHANGED <<self, featmap_sizes, gt_bbox_list, gt_label_list,
                   all_gt_label_list, label_size_list, label_list, bbox_target_list,
                   gt_ids_list, pos_list, flat, agg, reg, heap>>

NextDecode == DecodeNextLevel \/ HandToNms

SpecDecode == InitDecode /\ [][NextDecode]_vars

----------------------------------------------------------------------------
(* Properties of the training path.  They read the grids that              *)
(* ppdet_target_single returned (label_list, gt_ids_list, bbox_target_list *)
(* and the rectangles pos_list) and the two loss calls.                    *)

\* the cells <<image, level, <<row, column>>>> of the grids produced so far
GridCells ==
    UNION {UNION {{<<i, l, p>> : p \in DOMAIN label_list[i][l]} :
                  l \in 1..Len(label_list[i])} :
           i \in 1..Len(label_list)}

LabelAt(c) == label_list[c[1]][c[2]][c[3]]
IdAt(c) == gt_ids_list[c[1]][c[2]][c[3]]
TargetAt(c) == bbox_target_list[c[1]][c[2]][c[3]]

\* the rectangles painted on the grid of cell c which cover it
Painters(c) ==
    {k \in 1..Len(pos_list[c[1]][c[2]]) : InSlice(c[3], pos_list[c[1]][c[2]][k])}

\* the number of boxes of the images before image i
RECURSIVE BoxesBefore(_)
BoxesBefore(i) == IF i <= 1 THEN 0 ELSE Len(gt_bbox_list[i - 1]) + BoxesBefore(i - 1)

TotalBoxes == BoxesBefore(Len(gt_bbox_list) + 1)

\* C1: in every returned grid, a cell's label is 0 exactly when its
\* instance id is -1 (the ground-truth labels of the model are all >= 1).
C1_LabelZeroIffNoInstance ==
    \A c \in GridCells : (LabelAt(c) = 0) <=> (IdAt(c) = -1)

\* C1 witness: a grid painted twice at one cell, beside a level of the same
\* image that selected a box but painted nothing.
C1_Witness ==
    \E c \in GridCells :
        /\ Cardinality(Painters(c)) >= 2
        /\ LabelAt(c) # 0
        /\ \E l \in 1..Len(pos_list[c[1]]) :
              /\ Len(pos_list[c[1]][l]) > 0
              /\ \A p \in DOMAIN label_list[c[1]][l] : label_list[c[1]][l][p] = 0

\* what box j (0-based) of image i stores at cell c
StoredOf(c, j) ==
    LET l == c[2]
        yx == <<2 * c[3][1] + 1, 2 * c[3][2] + 1>>
        d == SideDistances(yx, gt_bbox_list[c[1]][j + 1], self.strides[l],
                           self.base_edge_list[l])
    IN  [ch \in 1..4 |-> StoreTarget(d[ch])]

\* C2: two boxes of different area_score selected by one level are painted
\* larger first; at every cell of both positive regions the cell never ends
\* with the larger box's instance, and it ends with the smaller box's label,
\* instance id and regression target (when no further box of the level
\* covers the cell).
C2_SmallerBoxWins ==
    \A i \in 1..Len(pos_list) : \A l \in 1..Len(pos_list[i]) :
        LET ps == pos_list[i][l]
        IN  \A a, b \in 1..Len(ps) :
                LET big == gt_bbox_list[i][ps[a].gt_id + 1]
                    small == gt_bbox_list[i][ps[b].gt_id + 1]
                IN  AreaSq(big) > AreaSq(small) =>
                        /\ a < b
                        /\ \A p \in DOMAIN label_list[i][l] :
                              (InSlice(p, ps[a]) /\ InSlice(p, ps[b])) =>
                                 /\ gt_ids_list[i][l][p] # ps[a].gt_id + BoxesBefore(i)
                                 /\ Painters(<<i, l, p>>) = {a, b} =>
                                      /\ label_list[i][l][p] = gt_label_list[i][ps[b].gt_id + 1]
                                      /\ gt_ids_list[i][l][p] = ps[b].gt_id + BoxesBefore(i)
                                      /\ bbox_target_list[i][l][p] =
                                             StoredOf(<<i, l, p>>, ps[b].gt_id)

\* C2 witness: the larger box comes later in the image's list, both paint
\* one cell, and the two boxes differ in label and in target there.
C2_Witness ==
    \E c \in GridCells :
        LET ps == pos_list[c[1]][c[2]]
        IN  /\ Cardinality(Painters(c)) = 2
            /\ \E a, b \in Painters(c) :
                  /\ a < b
                  /\ ps[a].gt_id > ps[b].gt_id
                  /\ AreaSq(gt_bbox_list[c[1]][ps[a].gt_id + 1])
                        > AreaSq(gt_bbox_list[c[1]][ps[b].gt_id + 1])
                  /\ gt_label_list[c[1]][ps[a].gt_id + 1]
                        # gt_label_list[c[1]][ps[b].gt_id + 1]
                  /\ StoredOf(c, ps[a].gt_id) # StoredOf(c, ps[b].gt_id)

\* the instances of the batch that some cell carries
HitInstances == {g \in 0..(TotalBoxes - 1) : \E c \in GridCells : IdAt(c) = g}

\* C3: the classification loss is normalised by the number of distinct
\* instances that some cell carries plus the number of images; without any
\* ground-truth box that is the number of images.
C3_ClsAvgFactor ==
    agg.called =>
        /\ agg.avg_factor = Cardinality(HitInstances) + Len(gt_bbox_list)
        /\ TotalBoxes = 0 => agg.avg_factor = Len(gt_bbox_list)

\* C3 witness: the loss was called for a batch where one instance has cells
\* on two levels and another instance has no cell.
C3_Witness ==
    /\ agg.called
    /\ \E c1, c2 \in GridCells : IdAt(c1) # -1 /\ IdAt(c1) = IdAt(c2) /\ c1[2] # c2[2]
    /\ \E g \in 0..(TotalBoxes - 1) : g \notin HitInstances

\* C4: a cell's instance id is the number of boxes of the earlier images
\* plus the index j of a box of its own image's list whose rectangle covers
\* the cell; it lies in [0, total), it is the box's position in the
\* concatenated lists, and cells of different images never share an id.
C4_InstanceIdIsGlobalIndex ==
    \A c \in GridCells :
        IdAt(c) # -1 =>
            LET j == IdAt(c) - BoxesBefore(c[1])
            IN  /\ 0 <= j /\ j < Len(gt_bbox_list[c[1]])
                /\ \E k \in Painters(c) : pos_list[c[1]][c[2]][k].gt_id = j
                /\ 0 <= IdAt(c) /\ IdAt(c) < TotalBoxes
                /\ Concat(gt_bbox_list)[IdAt(c) + 1] = gt_bbox_list[c[1]][j + 1]
                /\ Concat(gt_label_list)[IdAt(c) + 1] = LabelAt(c)
                /\ \A c2 \in GridCells : IdAt(c2) = IdAt(c) => c2[1] = c[1]

\* C4 witness: a painted cell of the second image, after a first image that
\* has a painted box too.
C4_Witness ==
    \E c1, c2 \in GridCells :
        c1[1] = 1 /\ c2[1] = 2 /\ IdAt(c1) # -1 /\ IdAt(c2) # -1

RECURSIVE SumScores(_, _)
SumScores(S, ch) ==
    IF S = {} THEN 0
    ELSE LET c == CHOOSE x \in S : TRUE
         IN  ClsScoreAt(c[2], c[1], c[3][1], c[3][2], ch) + SumScores(S \ {c}, ch)

CellsOf(g) == {c \in GridCells : IdAt(c) = g}

\* the raw score vector the network gave for cell c
ScoreRowOf(c) ==
    [ch \in 1..self.cls_out_channels |->
        Num(ClsScoreAt(c[2], c[1], c[3][1], c[3][2], ch), 1)]

NegativeSamples == {<<ScoreRowOf(c), 0>> : c \in {x \in GridCells : LabelAt(x) <= 0}}

InstanceSamples ==
    {<<[ch \in 1..self.cls_out_channels |->
            Num(SumScores(CellsOf(g), ch), Cardinality(CellsOf(g)))],
       Concat(gt_label_list)[g + 1]>> : g \in HitInstances}

\* C5: the classification loss gets one row per cell with label <= 0 (its
\* raw scores, label 0) and one row per instance that some cell carries (the
\* mean of the raw scores of exactly its cells, with its class label), and
\* nothing else; every cell with label > 0 belongs to exactly one instance.
C5_SampleSet ==
    agg.called =>
        /\ Len(agg.agg_cls_scores) = Len(agg.agg_labels)
        /\ {<<agg.agg_cls_scores[k], agg.agg_labels[k]>> : k \in 1..Len(agg.agg_labels)}
              = NegativeSamples \cup InstanceSamples
        /\ Len(agg.agg_labels)
              = Cardinality({c \in GridCells : LabelAt(c) <= 0}) + Cardinality(HitInstances)
        /\ \A c \in GridCells : LabelAt(c) > 0 => IdAt(c) \in HitInstances

\* C5 witness: the loss was called where one instance has several cells and
\* another has none.
C5_Witness ==
    /\ agg.called
    /\ \E g \in HitInstances : Cardinality(CellsOf(g)) >= 2
    /\ \E g \in 0..(TotalBoxes - 1) : g \notin HitInstances

PositiveCells == {c \in GridCells : LabelAt(c) > 0}

PredRowOf(c) == [ch \in 1..4 |-> BboxPredAt(c[2], c[1], c[3][1], c[3][2], ch)]

\* C6: the regression loss is called with exactly the cells of label > 0,
\* weight 1 in the four channels and avg_factor the number of those cells;
\* without such a cell it is not called and loss_bbox is the constant 0.
C6_RegressionOverPositives ==
    pc = "done" =>
        IF PositiveCells # {}
        THEN /\ reg.called
             /\ reg.avg_factor = Cardinality(PositiveCells)
             /\ Len(reg.pos_bbox_preds) = Cardinality(PositiveCells)
             /\ Len(reg.pos_bbox_targets) = Cardinality(PositiveCells)
             /\ Len(reg.pos_weights) = Cardinality(PositiveCells)
             /\ {<<reg.pos_bbox_preds[k], reg.pos_bbox_targets[k], reg.pos_weights[k]>> :
                    k \in 1..Len(reg.pos_bbox_preds)}
                  = {<<PredRowOf(c), TargetAt(c), <<1, 1, 1, 1>>>> : c \in PositiveCells}
        ELSE /\ ~reg.called
             /\ reg.loss_bbox = 0

\* C6 witness: loss() returned for a batch that has ground-truth boxes and
\* not one positive cell.
C6_Witness ==
    /\ pc = "done"
    /\ PositiveCells = {}
    /\ TotalBoxes > 0

IsLogOfOne(t) == t.k = "log" /\ t.n = t.d

InLogRange(t) ==
    /\ t.k = "log"
    /\ ~RatLess(t, ClampLow)
    /\ ~RatLess(ClampHigh, t)

\* C7: every cell that no selected box paints stores log(1) = 0 in the four
\* channels, and no stored target is NaN or outside [log(1/16), log(16)].
C7_UnpaintedCellsStoreZero ==
    \A c \in GridCells : \A ch \in 1..4 :
        /\ Painters(c) = {} => IsLogOfOne(TargetAt(c)[ch])
        /\ InLogRange(TargetAt(c)[ch])

BoundRange == -2..1024

IsCeil(L, num, den) == den * (L - 1) < num /\ num <= den * L
IsFloor(L, num, den) == den * L <= num /\ num < den * (L + 1)
IsClamped(v, L, dim) == v = (IF L < 0 THEN 0 ELSE IF L > dim - 1 THEN dim - 1 ELSE L)

\* anchor + (1 + sign * sigma) * half - 0.5 in stride units, over the
\* denominator 2 * SigmaDen * stride; anchor2 is twice the anchor in pixels
BoundNum(anchor2, lo, hi, sign, stride) ==
    SigmaDen * anchor2 + (SigmaDen + sign * SigmaNum) * (hi - lo) - SigmaDen * stride

BoundsFrom(pos, box, stride, size, ax2, ay2) ==
    LET den == 2 * SigmaDen * stride
    IN  /\ \E L \in BoundRange :
              /\ IsCeil(L, BoundNum(ax2, box[1], box[3], -1, stride), den)
              /\ IsClamped(pos.px1, L, size[2])
        /\ \E L \in BoundRange :
              /\ IsFloor(L, BoundNum(ax2, box[1], box[3], 1, stride), den)
              /\ IsClamped(pos.px2, L, size[2])
        /\ \E L \in BoundRange :
              /\ IsCeil(L, BoundNum(ay2, box[2], box[4], -1, stride), den)
              /\ IsClamped(pos.py1, L, size[1])
        /\ \E L \in BoundRange :
              /\ IsFloor(L, BoundNum(ay2, box[2], box[4], 1, stride), den)
              /\ IsClamped(pos.py2, L, size[1])

PaintedBoxes ==
    UNION {UNION {{<<i, l, k>> : k \in 1..Len(pos_list[i][l])} :
                  l \in 1..Len(pos_list[i])} :
           i \in 1..Len(pos_list)}

\* C10 as stated: the bounds are ceil(x_center + (1 - sigma) * half_w - 0.5)
\* and floor(x_center + (1 + sigma) * half_w - 0.5) with x_center the box
\* centre (likewise for y), each clamped into [0, dim - 1].
C10_BoundsFromCentre ==
    \A b \in PaintedBoxes :
        LET pos == pos_list[b[1]][b[2]][b[3]]
            box == gt_bbox_list[b[1]][pos.gt_id + 1]
        IN  BoundsFrom(pos, box, self.strides[b[2]], featmap_sizes[b[2]],
                       box[1] + box[3], box[2] + box[4])

\* C10 amended: the bounds are ceil(x1 + (1 - sigma) * half_w - 0.5) and
\* floor(x1 + (1 + sigma) * half_w - 0.5) with x1 the box's left edge (and y1
\* its top edge for the rows), in stride units, each clamped into
\* [0, dim - 1].
C10_BoundsFromEdge ==
    \A b \in PaintedBoxes :
        LET pos == pos_list[b[1]][b[2]][b[3]]
            box == gt_bbox_list[b[1]][pos.gt_id + 1]
        IN  BoundsFrom(pos, box, self.strides[b[2]], featmap_sizes[b[2]],
                       2 * box[1], 2 * box[2])

\* C10 witness: a selected box with one bound moved by the clamp and one
\* bound strictly inside the feature map.
C10_Witness ==
    \E b \in PaintedBoxes :
        LET pos == pos_list[b[1]][b[2]][b[3]]
            box == gt_bbox_list[b[1]][pos.gt_id + 1]
            stride == self.strides[b[2]]
            size == featmap_sizes[b[2]]
        IN  /\ 0 < pos.px1 /\ pos.px1 < size[2] - 1
            /\ BoundNum(2 * box[2], box[2], box[4], 1, stride)
                  >= 2 * SigmaDen * stride * size[1]

IsPositive(v) == v.k = "num" /\ RatLess(Num(0, 1), v)

\* C11: every cell of a selected box's positive rectangle has its centre
\* strictly inside the box (gx1 < stride * (c + 0.5) < gx2 and
\* gy1 < stride * (r + 0.5) < gy2), so the four side distances written for it
\* are positive before the clamp to [1/16, 16]; bounds moved by the clamp
\* into [0, dim - 1] included.
C11_PaintedCellsStrictlyInside ==
    \A b \in PaintedBoxes :
        LET pos == pos_list[b[1]][b[2]][b[3]]
            box == gt_bbox_list[b[1]][pos.gt_id + 1]
            stride == self.strides[b[2]]
            size == featmap_sizes[b[2]]
        IN  \A p \in Cells(size) :
                InSlice(p, pos) =>
                    /\ 2 * box[1] < stride * (2 * p[2] + 1)
                    /\ stride * (2 * p[2] + 1) < 2 * box[3]
                    /\ 2 * box[2] < stride * (2 * p[1] + 1)
                    /\ stride * (2 * p[1] + 1) < 2 * box[4]
                    /\ \A ch \in 1..4 :
                           IsPositive(SideDistances(PointGrid(size)[p], box, stride,
                                                    self.base_edge_list[b[2]])[ch])

\* the rows that the levels before level l take in a flattened tensor
RECURSIVE RowsBefore(_)
RowsBefore(l) ==
    IF l = 1 THEN 0
    ELSE RowsBefore(l - 1)
           + Len(gt_bbox_list) * featmap_sizes[l - 1][1] * featmap_sizes[l - 1][2]

\* the row of cell <<r, c>> of image i on level l: level-major, then
\* image-major, then row-major
RowOf(l, i, r, c) ==
    RowsBefore(l) + (i - 1) * featmap_sizes[l][1] * featmap_sizes[l][2]
        + r * featmap_sizes[l][2] + c + 1

\* the cells the network predicts for: every image on every prediction level
PredCells ==
    UNION {UNION {{<<i, l, p>> : p \in Cells(featmap_sizes[l])} :
                  l \in 1..Len(featmap_sizes)} :
           i \in 1..Len(gt_bbox_list)}

Flattened == pc \in {"cls", "bbox", "done"}

\* C12: row n of flatten_labels, flatten_bbox_targets and flatten_ids belongs
\* to the same (level, image, y, x) cell as row n of flatten_cls_scores and
\* flatten_bbox_preds, both ordered level-major, then image-major, then
\* row-major; and the two have the same length when there are as many
\* prediction levels as configured levels.
C12_TargetsAlignedWithPreds ==
    Flattened =>
        /\ \A x \in PredCells :
              LET n == RowOf(x[2], x[1], x[3][1], x[3][2])
              IN  /\ n \in 1..Len(flat.flatten_cls_scores)
                  /\ flat.flatten_cls_scores[n] =
                         [ch \in 1..self.cls_out_channels |->
                             ClsScoreAt(x[2], x[1], x[3][1], x[3][2], ch)]
                  /\ flat.flatten_bbox_preds[n] = PredRowOf(x)
                  /\ x \in GridCells =>
                         /\ n \in 1..Len(flat.flatten_labels)
                         /\ flat.flatten_labels[n] = LabelAt(x)
                         /\ flat.flatten_bbox_targets[n] = TargetAt(x)
                         /\ flat.flatten_ids[n] = IdAt(x)
        /\ Len(flat.flatten_cls_scores) = Cardinality(PredCells)
        /\ Len(flat.flatten_bbox_preds) = Cardinality(PredCells)
        /\ Len(flat.flatten_labels) = Cardinality(GridCells)
        /\ Len(flat.flatten_bbox_targets) = Cardinality(GridCells)
        /\ Len(flat.flatten_ids) = Cardinality(GridCells)
        /\ Len(featmap_sizes) = Len(self.strides) =>
               Len(flat.flatten_labels) = Len(flat.flatten_cls_scores)

\* C12 witness: two images flattened over as many prediction levels as
\* configured levels, with a positive cell of the second image on the first
\* level and a positive cell of the first image on the second level.
C12_Witness ==
    /\ Flattened
    /\ Len(gt_bbox_list) = 2
    /\ Len(featmap_sizes) = Len(self.strides)
    /\ \E x \in PositiveCells : x[1] = 2 /\ x[2] = 1
    /\ \E x \in PositiveCells : x[1] = 1 /\ x[2] = 2

----------------------------------------------------------------------------
(* Properties of the decoding path. *)

DecodedRows ==
    UNION {{<<l, k>> : k \in 1..Len(dec.levels[l].kept)} : l \in 1..Len(dec.levels)}

\* the row of a level of stride 8 and base edge 16 at the cell
\* (y, x) = (10.5, 20.5) whose four predictions are 0 after the exponential
IsScenarioRow(r) ==
    LET lv == dec.levels[r[1]]
    IN  /\ lv.stride = 8 /\ lv.base_len = 16
        /\ lv.y[r[2]] = 21 /\ lv.x[r[2]] = 41
        /\ \A ch \in 1..4 : lv.bbox_pred[r[2]][ch] = Num(0, 1)

BoxIs(box, x1, y1, x2, y2) ==
    /\ \A ch \in 1..4 : box[ch].k = "num"
    /\ RatEq(box[1], Num(x1, 1)) /\ RatEq(box[2], Num(y1, 1))
    /\ RatEq(box[3], Num(x2, 1)) /\ RatEq(box[4], Num(y2, 1))

\* C8 as stated: that row decodes, before the clamp, to (168, 84, 168, 84).
C8_DecodesTo168 ==
    \A r \in DecodedRows :
        IsScenarioRow(r) => BoxIs(dec.levels[r[1]].unclamped[r[2]], 168, 84, 168, 84)

\* C8 amended: that row decodes, before the clamp, to (164, 84, 164, 84):
\* stride * x = 8 * 20.5 = 164 and stride * y = 8 * 10.5 = 84.
C8_DecodesTo164 ==
    \A r \in DecodedRows :
        IsScenarioRow(r) => BoxIs(dec.levels[r[1]].unclamped[r[2]], 164, 84, 164, 84)

\* C8 witness: the scenario's row has been decoded.
C8_Witness == \E r \in DecodedRows : IsScenarioRow(r)

\* the number of candidates kept on the levels before level l
RECURSIVE KeptBefore(_)
KeptBefore(l) == IF l <= 1 THEN 0 ELSE Len(dec.levels[l - 1].kept) + KeptBefore(l - 1)

\* candidate r[2] of level r[1] is row KeptBefore(r[1]) + r[2] of both
\* matrices: its scores behind one zero column, and its box
ScoresAsGiven(r, columns) ==
    LET lv == dec.levels[r[1]]
        k == KeptBefore(r[1]) + r[2]
        row == dec.det_scores[k]
    IN  /\ Len(row) = columns
        /\ row[1] = Num(0, 1)
        /\ \A ch \in 1..(columns - 1) :
              row[ch + 1] = Sigmoid(RawScore(lv.cls_pat, lv.kept[r[2]], ch))
        /\ dec.det_bboxes[k] =
              Rescale(ClampBox(DecodeBox(lv.stride, lv.base_len,
                                         2 * (lv.kept[r[2]] \div lv.featmap_size[2]) + 1,
                                         2 * (lv.kept[r[2]] % lv.featmap_size[2]) + 1,
                                         [ch \in 1..4 |->
                                             Exp(RawPred(lv.pred_pat, lv.kept[r[2]], ch))]),
                                dec.img_shape),
                      dec.rescale, dec.scale_factor)

\* C9 as stated: the score matrix has a row for every row of the box
\* matrix, in the same order, and num_classes + 1 columns, column 0 zero and
\* the others the sigmoid scores.
C9_NumClassesPlusOneColumns ==
    pc = "multiclass_nms" =>
        /\ Len(dec.det_scores) = Len(dec.det_bboxes)
        /\ Len(dec.det_scores) = KeptBefore(Len(dec.levels) + 1)
        /\ \A r \in DecodedRows : ScoresAsGiven(r, self.num_classes + 1)

\* C9 amended: the score matrix has a row for every row of the box matrix,
\* in the same order, and num_classes columns (cls_out_channels + 1, the
\* configured num_classes counting the background): column 0 is zero and
\* columns 1.. are the sigmoid scores of the row's candidate.
C9_NumClassesColumns ==
    pc = "multiclass_nms" =>
        /\ Len(dec.det_scores) = Len(dec.det_bboxes)
        /\ Len(dec.det_scores) = KeptBefore(Len(dec.levels) + 1)
        /\ \A r \in DecodedRows : ScoresAsGiven(r, self.num_classes)

\* C9 witness: two levels were handed on, one of them cut to its top-k
\* candidates.
C9_Witness ==
    /\ pc = "multiclass_nms"
    /\ Len(dec.levels) = 2
    /\ \E l \in 1..2 :
          Len(dec.levels[l].kept) < dec.levels[l].featmap_size[1] * dec.levels[l].featmap_size[2]
    /\ Len(dec.det_scores) > 2

====
